---- MODULE Spec2Model ----
(***************************************************************************)
(* Model of the timecard-excel service (main.go): the /excel handler       *)
(* makeHandler, taken one statement group at a time so that several        *)
(* requests can interleave, together with the helpers it calls and the     *)
(* parts of time.Parse and of the spreadsheet library it relies on.        *)
(***************************************************************************)
EXTENDS Integers, Sequences, FiniteSets, TLC

VARIABLES
    templateFS,  \* the embedded template.xlsx
    files,       \* the live spreadsheet models, by handle
    closed,      \* handles whose file was closed
    pc,          \* position of each handler invocation
    method,      \* r.Method
    req,         \* the decoded Request
    sheet,       \* the sheet that gets the rows
    tmplBytes,   \* the bytes ReadFile returned
    f,           \* the handle OpenReader returned
    rowIdx,      \* the row the next entry is written to
    idx,         \* position of the range loop in req.Rows
    buf,         \* what WriteToBuffer returned
    status,      \* the response status line (0: not yet written)
    body         \* the chunks written to the response body

vars == <<templateFS, files, closed, pc, method, req, sheet, tmplBytes, f,
          rowIdx, idx, buf, status, body>>

-----------------------------------------------------------------------------
(* Bounds of the model *)

\* longest rows array of a payload
MaxRows == 8
\* longest rows array of a payload when two requests run together
MaxConcRows == 2

-----------------------------------------------------------------------------
(* Layout mapping *)

startRow == 5

cellEmployeeW1 == "M2"
cellEmployeeW2 == "AJ2"

cols == [Date |-> "B", Project |-> "", Hours |-> "", Type |-> "", Notes |-> ""]

cellOTHeaderDateW1 == ""
cellOTHeaderDateW2 == ""

cellTotalRegularW1 == ""
cellTotalOTW1 == ""
cellTotalDTW1 == ""
cellTotalRegularW2 == ""
cellTotalOTW2 == ""
cellTotalDTW2 == ""

\* net/http status codes used by the handler
StatusOK == 200
StatusNoContent == 204
StatusBadRequest == 400
StatusMethodNotAllowed == 405
StatusInternalServerError == 500

-----------------------------------------------------------------------------
(* Texts are sequences of one-character strings, so that parsing reads them *)
(* character by character as time.Parse does.                               *)

DigitChars == <<"0", "1", "2", "3", "4", "5", "6", "7", "8", "9">>

isDigit(s, i) == i <= Len(s) /\ \E k \in 1..10 : DigitChars[k] = s[i]

DigitVal(c) == (CHOOSE k \in 1..10 : DigitChars[k] = c) - 1

\* itoa without strconv: the decimal digits of i, least significant last
RECURSIVE itoaDigits(_)
itoaDigits(i) == IF i = 0 THEN "" ELSE itoaDigits(i \div 10) \o DigitChars[(i % 10) + 1]

itoa(i) ==
    IF i = 0 THEN "0"
    ELSE IF i < 0 THEN "-" \o itoaDigits(-i)
    ELSE itoaDigits(i)

-----------------------------------------------------------------------------
(* time.Parse for layouts made of the year, month and day elements          *)

isLeap(year) == year % 4 = 0 /\ (year % 100 # 0 \/ year % 400 = 0)

daysIn(m, year) ==
    IF m = 2 THEN (IF isLeap(year) THEN 29 ELSE 28)
    ELSE IF m \in {4, 6, 9, 11} THEN 30
    ELSE 31

ParseFail == [ok |-> FALSE]

\* getnum(s, fixed = true): exactly two digits
getnum2(s) ==
    IF isDigit(s, 1) /\ isDigit(s, 2)
    THEN [ok |-> TRUE, n |-> DigitVal(s[1]) * 10 + DigitVal(s[2]), rest |-> SubSeq(s, 3, Len(s))]
    ELSE ParseFail

\* the four-digit year element
getyear4(s) ==
    IF Len(s) >= 4 /\ \A i \in 1..4 : isDigit(s, i)
    THEN [ok |-> TRUE,
          n |-> DigitVal(s[1]) * 1000 + DigitVal(s[2]) * 100 + DigitVal(s[3]) * 10 + DigitVal(s[4]),
          rest |-> SubSeq(s, 5, Len(s))]
    ELSE ParseFail

\* the two-digit year element: 69..99 are 19xx, 00..68 are 20xx
getyear2(s) ==
    LET r == getnum2(s) IN
    IF ~r.ok THEN ParseFail
    ELSE [ok |-> TRUE, n |-> IF r.n >= 69 THEN r.n + 1900 ELSE r.n + 2000, rest |-> r.rest]

\* One pass over the layout elements; acc holds the fields read so far.
RECURSIVE parseElems(_, _, _)
parseElems(layout, value, acc) ==
    IF layout = <<>> THEN
        \* text left over, then the range checks on month and day
        IF value # <<>> THEN ParseFail
        ELSE IF acc.m < 1 \/ acc.m > 12 THEN ParseFail
        ELSE IF acc.d < 1 \/ acc.d > daysIn(acc.m, acc.y) THEN ParseFail
        ELSE [ok |-> TRUE, t |-> acc]
    ELSE
        LET e == Head(layout)
            r == IF e = "2006" THEN getyear4(value)
                 ELSE IF e = "06" THEN getyear2(value)
                 ELSE IF e \in {"01", "02"} THEN getnum2(value)
                 ELSE IF value # <<>> /\ Head(value) = e
                      THEN [ok |-> TRUE, n |-> 0, rest |-> Tail(value)]
                      ELSE ParseFail
        IN  IF ~r.ok THEN ParseFail
            ELSE parseElems(Tail(layout), r.rest,
                            IF e \in {"2006", "06"} THEN [acc EXCEPT !.y = r.n]
                            ELSE IF e = "01" THEN [acc EXCEPT !.m = r.n]
                            ELSE IF e = "02" THEN [acc EXCEPT !.d = r.n]
                            ELSE acc)

timeParse(layout, value) == parseElems(layout, value, [y |-> 0, m |-> 1, d |-> 1])

\* the one layout the handler parses with: "2006-01-02"
LayoutISO == <<"2006", "-", "01", "-", "02">>

-----------------------------------------------------------------------------
(* The spreadsheet library: a file is a map sheet -> cell -> value           *)

Sheets == {"Week 1", "Week 2"}

StrVal(s) == [kind |-> "string", s |-> s]
TimeVal(t) == [kind |-> "time", t |-> t]
NumVal(n) == [kind |-> "number", n |-> n]
TemplateValue == [kind |-> "template"]

\* f.SetCellValue(sheet, cell, v); the error for an unknown sheet is dropped
SetCellValue(file, sh, cell, v) ==
    IF sh \in DOMAIN file
    THEN [file EXCEPT ![sh] = (cell :> v) @@ @]
    ELSE file

\* write only if a column/cell is provided
setIfCol(file, sh, col, row, v) ==
    IF col = "" THEN file
    ELSE SetCellValue(file, sh, col \o itoa(row), v)

\* write to an absolute cell (like "M2"), only if provided
setIfCell(file, sh, cell, v) ==
    IF cell = "" THEN file
    ELSE SetCellValue(file, sh, cell, v)

\* the cells template.xlsx holds on each sheet, with their template values
TemplateCells ==
    {cellEmployeeW1, cellEmployeeW2}
        \cup {cols.Date \o itoa(r) : r \in (startRow - 1)..(startRow + MaxRows + 1)}

TemplateDoc == [s \in Sheets |-> [c \in TemplateCells |-> TemplateValue]]

NilBytes == [nil |-> TRUE]
TemplateBytes == [nil |-> FALSE, xlsx |-> TemplateDoc]

\* excelize.OpenReader: a new file built from the bytes
OpenReader(bytes) == bytes.xlsx

\* f.WriteToBuffer: the bytes of the file as it is now
WriteToBuffer(file) == [nil |-> FALSE, xlsx |-> file]

NoFile == [s \in {} |-> TemplateValue]

-----------------------------------------------------------------------------
(* Steps of makeHandler on a file                                            *)

\* ResolveSheet with the comparison loosened: every selector from 2 up is week 2
ResolveSheetFromTwoUp(weekNumber) == IF weekNumber >= 2 THEN "Week 2" ELSE "Week 1"

\* Decide which sheet gets the rows
ResolveSheet(weekNumber) == IF weekNumber = 2 THEN "Week 2" ELSE "Week 1"

\* WriteEmployeeNames with the second write left out
WriteEmployeeNamesWeek1Only(file, name) ==
    setIfCell(file, "Week 1", cellEmployeeW1, StrVal(name))

\* Write employee name to BOTH weeks
WriteEmployeeNames(file, name) ==
    setIfCell(setIfCell(file, "Week 1", cellEmployeeW1, StrVal(name)),
              "Week 2", cellEmployeeW2, StrVal(name))

\* DateCellValue with the parse error ignored: a failed parse gives the zero time
DateCellValueIgnoringError(date) ==
    LET p == timeParse(LayoutISO, date) IN
    IF p.ok THEN TimeVal(p.t) ELSE TimeVal([y |-> 1, m |-> 1, d |-> 1])

\* Date as Excel date if parseable, else the text as it came
DateCellValue(date) ==
    LET p == timeParse(LayoutISO, date) IN
    IF p.ok THEN TimeVal(p.t) ELSE StrVal(date)

\* the body of the loop over req.Rows, for one row rr written at rowIdx
WriteDetailRow(file, sh, row, rr) ==
    LET f1 == setIfCol(file, sh, cols.Date, row, DateCellValue(rr.Date))
        f2 == setIfCol(f1, sh, cols.Project, row, StrVal(rr.Project))
        f3 == setIfCol(f2, sh, cols.Hours, row, NumVal(rr.Hours))
        f4 == setIfCol(f3, sh, cols.Type, row, StrVal(rr.Type))
    IN  setIfCol(f4, sh, cols.Notes, row, StrVal(rr.Notes))

\* Optional: set OT header "Date:" to the first row's date
WriteOTHeaderDate(file, sh, rows) ==
    IF Len(rows) > 0 /\ rows[1].Date # <<>>
    THEN LET otDate == DateCellValue(rows[1].Date) IN
         IF sh = "Week 1"
         THEN setIfCell(file, "Week 1", cellOTHeaderDateW1, otDate)
         ELSE setIfCell(file, "Week 2", cellOTHeaderDateW2, otDate)
    ELSE file

\* one guarded total: written only if the cell is mapped and the value non-zero
setTotal(file, s, cell, v) ==
    IF cell # "" /\ v # 0 THEN SetCellValue(file, s, cell, NumVal(v)) ELSE file

\* Optional: write right-side totals if those cells are mapped
writeTotals(file, s, reg, ot, dt) ==
    IF s = "Week 1"
    THEN setTotal(setTotal(setTotal(file, s, cellTotalRegularW1, reg),
                           s, cellTotalOTW1, ot), s, cellTotalDTW1, dt)
    ELSE IF s = "Week 2"
    THEN setTotal(setTotal(setTotal(file, s, cellTotalRegularW2, reg),
                           s, cellTotalOTW2, ot), s, cellTotalDTW2, dt)
    ELSE file

\* w.WriteHeader: the first status written stands
WriteHeader(st, code) == IF st = 0 THEN code ELSE st

-----------------------------------------------------------------------------
(* Payloads                                                                  *)

Handlers == {"h1", "h2"}
FileIds == 1..Cardinality(Handlers)

Methods == {"POST", "OPTIONS", "GET"}

Fmt2(n) == <<DigitChars[(n \div 10) + 1], DigitChars[(n % 10) + 1]>>
Fmt4(n) == Fmt2(n \div 100) \o Fmt2(n % 100)
ISOText(t) == Fmt4(t.y) \o <<"-">> \o Fmt2(t.m) \o <<"-">> \o Fmt2(t.d)

NextDay(t) ==
    IF t.d < daysIn(t.m, t.y) THEN [t EXCEPT !.d = @ + 1]
    ELSE IF t.m < 12 THEN [t EXCEPT !.m = @ + 1, !.d = 1]
    ELSE [y |-> t.y + 1, m |-> 1, d |-> 1]

RECURSIVE AddDays(_, _)
AddDays(t, n) == IF n = 0 THEN t ELSE AddDays(NextDay(t), n - 1)

\* first days of the weeks the payloads carry: a Sunday, and a Wednesday
\* whose week runs over 29 February
WeekStarts == {[y |-> 2024, m |-> 2, d |-> 25], [y |-> 2024, m |-> 2, d |-> 28]}

\* date texts that are not a well-formed YYYY-MM-DD date
OddDates ==
    { <<"0", "1", "-", "0", "2", "-", "0", "3">>,
      <<"2", "0", "2", "4", "/", "0", "3", "/", "0", "1">>,
      <<"0", "3", "/", "0", "1", "/", "2", "0", "2", "4">>,
      <<"1", "3", "-", "0", "3", "-", "2", "0", "2", "4">>,
      <<"2", "0", "2", "3", "-", "0", "2", "-", "2", "9">>,
      <<"n", "/", "a">>,
      <<>> }

Row(date) ==
    [Date |-> date, Project |-> <<"P">>, Hours |-> 8, Type |-> <<"R">>, Notes |-> <<>>]

\* rows arrays of up to max entries, on consecutive days from a week start
PlainRows(max) ==
    { [i \in 1..n |-> Row(ISOText(AddDays(st, i - 1)))] : n \in 0..max, st \in WeekStarts }

\* the same, with one entry (the k-th) carrying an odd date text
OddRows(max) ==
    { [i \in 1..n |-> Row(IF i = k THEN o ELSE ISOText(AddDays(st, i - 1)))] :
        n \in 1..max, st \in WeekStarts, k \in 1..max, o \in OddDates }

WeekNumbers == {-1, 0, 1, 2, 3}

Requests ==
    [EmployeeName : {<<>>, <<"A", "n", "n">>}, WeekNumber : WeekNumbers,
     Rows : PlainRows(MaxRows) \cup OddRows(MaxRows), TotalOC : {0}, TotalOT : {0, 8}]

\* payloads whose dates are all well-formed YYYY-MM-DD
ISORequests ==
    [EmployeeName : {<<>>, <<"A", "n", "n">>}, WeekNumber : WeekNumbers,
     Rows : PlainRows(MaxRows), TotalOC : {0}, TotalOT : {0, 8}]

ConcRequests ==
    [EmployeeName : {<<"A", "n", "n">>, <<"B", "o", "b">>}, WeekNumber : WeekNumbers,
     Rows : PlainRows(MaxConcRows), TotalOC : {0}, TotalOT : {0}]

\* var req Request
ZeroRequest ==
    [EmployeeName |-> <<>>, WeekNumber |-> 0, Rows |-> <<>>, TotalOC |-> 0, TotalOT |-> 0]

-----------------------------------------------------------------------------
(* The handler                                                               *)

Init ==
    /\ templateFS = TemplateBytes
    /\ files = [i \in FileIds |-> NoFile]
    /\ closed = {}
    /\ pc = [h \in Handlers |-> "start"]
    /\ method = [h \in Handlers |-> ""]
    /\ req = [h \in Handlers |-> ZeroRequest]
    /\ sheet = [h \in Handlers |-> ""]
    /\ tmplBytes = [h \in Handlers |-> NilBytes]
    /\ f = [h \in Handlers |-> 0]
    /\ rowIdx = [h \in Handlers |-> 0]
    /\ idx = [h \in Handlers |-> 0]
    /\ buf = [h \in Handlers |-> NilBytes]
    /\ status = [h \in Handlers |-> 0]
    /\ body = [h \in Handlers |-> <<>>]

\* http.Error(w, msg, code) followed by return
HttpErrorReturn(h, msg, code) ==
    /\ status' = [status EXCEPT ![h] = WriteHeader(@, code)]
    /\ body' = [body EXCEPT ![h] = Append(@, [kind |-> "text", msg |-> msg])]
    /\ pc' = [pc EXCEPT ![h] = "done"]

\* NewFile handing out one cached file to every request
NewFileShared == CHOOSE i \in FileIds : \A j \in FileIds : i <= j

\* the handle a newly opened file gets: one no request holds
NewFile == CHOOSE i \in FileIds : /\ \A h \in Handlers : f[h] # i
                                  /\ \A j \in FileIds : (\A h \in Handlers : f[h] # j) => i <= j

\* AfterSerialize with the return after the error left out
AfterSerializeNoReturn(ok) == "respond"

\* where the handler goes once WriteToBuffer returned
AfterSerialize(ok) == IF ok THEN "respond" ELSE "done"

\* CORS header and the method checks
CheckMethod(h) ==
    /\ pc[h] = "start"
    /\ \E m \in Methods :
        /\ method' = [method EXCEPT ![h] = m]
        /\ IF m = "OPTIONS"
           THEN /\ status' = [status EXCEPT ![h] = WriteHeader(@, StatusNoContent)]
                /\ pc' = [pc EXCEPT ![h] = "done"]
                /\ body' = body
           ELSE IF m # "POST"
           THEN HttpErrorReturn(h, "POST /excel only", StatusMethodNotAllowed)
           ELSE /\ pc' = [pc EXCEPT ![h] = "decode"]
                /\ UNCHANGED <<status, body>>
    /\ UNCHANGED <<templateFS, files, closed, req, sheet, tmplBytes, f, rowIdx, idx, buf>>

\* json decoding of the body fails
DecodeBad(h) ==
    /\ pc[h] = "decode"
    /\ HttpErrorReturn(h, "bad json", StatusBadRequest)
    /\ UNCHANGED <<templateFS, files, closed, method, req, sheet, tmplBytes, f, rowIdx, idx, buf>>

\* json decoding gives a Request out of R; the sheet for the rows is chosen
Decode(h, R) ==
    /\ pc[h] = "decode"
    /\ \E r \in R :
        /\ req' = [req EXCEPT ![h] = r]
        /\ sheet' = [sheet EXCEPT ![h] = ResolveSheet(r.WeekNumber)]
    /\ pc' = [pc EXCEPT ![h] = "readTemplate"]
    /\ UNCHANGED <<templateFS, files, closed, method, tmplBytes, f, rowIdx, idx, buf, status, body>>

\* templateFS.ReadFile("template.xlsx")
ReadTemplate(h) ==
    /\ pc[h] = "readTemplate"
    /\ \E ok \in BOOLEAN :
        IF ok
        THEN /\ tmplBytes' = [tmplBytes EXCEPT ![h] = templateFS]
             /\ pc' = [pc EXCEPT ![h] = "open"]
             /\ UNCHANGED <<status, body>>
        ELSE /\ HttpErrorReturn(h, "template read", StatusInternalServerError)
             /\ UNCHANGED tmplBytes
    /\ UNCHANGED <<templateFS, files, closed, method, req, sheet, f, rowIdx, idx, buf>>

\* excelize.OpenReader(bytes.NewReader(tmplBytes))
OpenTemplate(h) ==
    /\ pc[h] = "open"
    /\ \E ok \in BOOLEAN :
        IF ok
        THEN /\ f' = [f EXCEPT ![h] = NewFile]
             /\ files' = [files EXCEPT ![NewFile] = OpenReader(tmplBytes[h])]
             /\ pc' = [pc EXCEPT ![h] = "names"]
             /\ UNCHANGED <<status, body>>
        ELSE /\ HttpErrorReturn(h, "open template", StatusInternalServerError)
             /\ UNCHANGED <<f, files>>
    /\ UNCHANGED <<templateFS, closed, method, req, sheet, tmplBytes, rowIdx, idx, buf>>

\* the employee name cells; the loop over the rows is set up
WriteEmployee(h) ==
    /\ pc[h] = "names"
    /\ files' = [files EXCEPT ![f[h]] = WriteEmployeeNames(@, req[h].EmployeeName)]
    /\ rowIdx' = [rowIdx EXCEPT ![h] = startRow]
    /\ idx' = [idx EXCEPT ![h] = 1]
    /\ pc' = [pc EXCEPT ![h] = IF Len(req[h].Rows) = 0 THEN "otHeader" ELSE "rows"]
    /\ UNCHANGED <<templateFS, closed, method, req, sheet, tmplBytes, f, buf, status, body>>

\* one turn of the loop over req.Rows
WriteRow(h) ==
    /\ pc[h] = "rows"
    /\ idx[h] <= Len(req[h].Rows)
    /\ files' = [files EXCEPT ![f[h]] =
                    WriteDetailRow(@, sheet[h], rowIdx[h], req[h].Rows[idx[h]])]
    /\ rowIdx' = [rowIdx EXCEPT ![h] = @ + 1]
    /\ idx' = [idx EXCEPT ![h] = @ + 1]
    /\ pc' = [pc EXCEPT ![h] = IF idx[h] + 1 > Len(req[h].Rows) THEN "otHeader" ELSE "rows"]
    /\ UNCHANGED <<templateFS, closed, method, req, sheet, tmplBytes, f, buf, status, body>>

\* the OT header date and the totals
WriteHeaderAndTotals(h) ==
    /\ pc[h] = "otHeader"
    /\ files' = [files EXCEPT ![f[h]] =
                    writeTotals(WriteOTHeaderDate(@, sheet[h], req[h].Rows),
                                sheet[h], 0, req[h].TotalOT, 0)]
    /\ pc' = [pc EXCEPT ![h] = "serialize"]
    /\ UNCHANGED <<templateFS, closed, method, req, sheet, tmplBytes, f, rowIdx, idx,
                   buf, status, body>>

\* f.WriteToBuffer(); on an error the handler returns and the file is closed
Serialize(h) ==
    /\ pc[h] = "serialize"
    /\ \E ok \in BOOLEAN :
        /\ buf' = [buf EXCEPT ![h] = IF ok THEN WriteToBuffer(files[f[h]]) ELSE NilBytes]
        /\ IF ok
           THEN UNCHANGED <<status, body>>
           ELSE /\ status' = [status EXCEPT ![h] = WriteHeader(@, StatusInternalServerError)]
                /\ body' = [body EXCEPT ![h] = Append(@, [kind |-> "text", msg |-> "write xlsx"])]
        /\ pc' = [pc EXCEPT ![h] = AfterSerialize(ok)]
        /\ closed' = IF AfterSerialize(ok) = "done" THEN closed \cup {f[h]} ELSE closed
    /\ UNCHANGED <<templateFS, files, method, req, sheet, tmplBytes, f, rowIdx, idx>>

\* the headers, the status and the bytes; a failed write is only logged
Respond(h) ==
    /\ pc[h] = "respond"
    /\ status' = [status EXCEPT ![h] = WriteHeader(@, StatusOK)]
    /\ \E written \in BOOLEAN :
        body' = [body EXCEPT ![h] =
                    IF written THEN Append(@, [kind |-> "xlsx", bytes |-> buf[h]]) ELSE @]
    /\ closed' = closed \cup {f[h]}
    /\ pc' = [pc EXCEPT ![h] = "done"]
    /\ UNCHANGED <<templateFS, files, method, req, sheet, tmplBytes, f, rowIdx, idx, buf>>

Handle(h, R) ==
    \/ CheckMethod(h)
    \/ DecodeBad(h)
    \/ Decode(h, R)
    \/ ReadTemplate(h)
    \/ OpenTemplate(h)
    \/ WriteEmployee(h)
    \/ WriteRow(h)
    \/ WriteHeaderAndTotals(h)
    \/ Serialize(h)
    \/ Respond(h)

\* one request at a time
Next == Handle("h1", Requests)

Spec == Init /\ [][Next]_vars

\* one request at a time, every date a well-formed YYYY-MM-DD
NextISO == Handle("h1", ISORequests)

SpecISO == Init /\ [][NextISO]_vars

\* two requests handled concurrently
NextConc == \E h \in Handlers : Handle(h, ConcRequests)

SpecConc == Init /\ [][NextConc]_vars

-----------------------------------------------------------------------------
(* Vocabulary of the properties                                              *)

\* the request of h was decoded
Decoded(h) ==
    /\ pc[h] \notin {"start", "decode"}
    /\ status[h] \notin {StatusNoContent, StatusMethodNotAllowed, StatusBadRequest}

\* every cell write of h's request has been made
Populated(h) == f[h] # 0 /\ pc[h] \in {"serialize", "respond", "done"}

\* the spreadsheet model of h's request
Doc(h) == files[f[h]]

\* entries 1..Processed(h) of req[h].Rows have been through the loop
Processed(h) == IF f[h] # 0 /\ idx[h] > 0 THEN idx[h] - 1 ELSE 0

\* the date cell of the i-th entry (i from 1): column B, row startRow + i - 1
DateCell(i) == "B" \o itoa(startRow + i - 1)

HasXlsx(h) == \E k \in 1..Len(body[h]) : body[h][k].kind = "xlsx"
HasText(h) == \E k \in 1..Len(body[h]) : body[h][k].kind = "text"

\* the six formats of the date normaliser, in priority order
AcceptedLayouts ==
    << <<"2006", "-", "01", "-", "02">>,
       <<"06", "-", "01", "-", "02">>,
       <<"2006", "/", "01", "/", "02">>,
       <<"01", "/", "02", "/", "2006">>,
       <<"02", "-", "01", "-", "2006">>,
       <<"02", "/", "01", "/", "2006">> >>

\* first match wins: the reading of the earliest layout that accepts s
RECURSIVE FirstMatch(_, _)
FirstMatch(layouts, s) ==
    IF layouts = <<>> THEN ParseFail
    ELSE LET p == timeParse(Head(layouts), s) IN
         IF p.ok THEN p ELSE FirstMatch(Tail(layouts), s)

Normalise(s) == FirstMatch(AcceptedLayouts, s)

\* day of the week, Sunday = 0
Weekday(t) ==
    LET y == IF t.m < 3 THEN t.y - 1 ELSE t.y
        off == <<0, 3, 2, 5, 0, 3, 5, 1, 4, 6, 2, 4>>
    IN  (y + (y \div 4) - (y \div 100) + (y \div 400) + off[t.m] + t.d) % 7

PrevDay(t) ==
    IF t.d > 1 THEN [t EXCEPT !.d = @ - 1]
    ELSE IF t.m > 1 THEN [t EXCEPT !.m = @ - 1, !.d = daysIn(t.m - 1, t.y)]
    ELSE [y |-> t.y - 1, m |-> 12, d |-> 31]

RECURSIVE SubDays(_, _)
SubDays(t, n) == IF n = 0 THEN t ELSE SubDays(PrevDay(t), n - 1)

SundayOnOrBefore(t) == SubDays(t, Weekday(t))

\* v is a value h's request may put into its own document: a template
\* value, its employee name, the text of one of its entries, or the date
\* that one of its entries spells out as YYYY-MM-DD
IsOwnValue(h, v) ==
    \/ v = TemplateValue
    \/ v = StrVal(req[h].EmployeeName)
    \/ /\ v.kind = "string"
       /\ \E i \in 1..Len(req[h].Rows) : req[h].Rows[i].Date = v.s
    \/ /\ v.kind = "time"
       /\ \E i \in 1..Len(req[h].Rows) : req[h].Rows[i].Date = ISOText(v.t)

\* every cell of doc holds a value of h's request
OnlyOwnValues(h, doc) ==
    \A s \in DOMAIN doc : \A c \in DOMAIN doc[s] : IsOwnValue(h, doc[s][c])

-----------------------------------------------------------------------------
(* Properties                                                                *)

\* C1: a request with fewer than seven entries is rejected with an error
\* outcome before the template is loaded and before any cell is written, and
\* no spreadsheet bytes are returned.
C1_ShortRequestRejected ==
    \A h \in Handlers :
        (Decoded(h) /\ Len(req[h].Rows) < 7) =>
            /\ tmplBytes[h] = NilBytes
            /\ f[h] = 0
            /\ ~HasXlsx(h)
            /\ (pc[h] = "done" => status[h] >= StatusBadRequest)

\* C2, as claimed: for a selector in {1, 2} the employee name is in the name
\* cell of that week's sheet (M2 on "Week 1", AJ2 on "Week 2") and no cell of
\* the other week's sheet differs from the template.
C2_NameOnlyInSelectedWeek ==
    \A h \in Handlers :
        (Populated(h) /\ req[h].WeekNumber \in {1, 2}) =>
            LET own == IF req[h].WeekNumber = 1 THEN "Week 1" ELSE "Week 2"
                other == IF req[h].WeekNumber = 1 THEN "Week 2" ELSE "Week 1"
                cell == IF req[h].WeekNumber = 1 THEN "M2" ELSE "AJ2"
            IN  /\ Doc(h)[own][cell] = StrVal(req[h].EmployeeName)
                /\ Doc(h)[other] = TemplateDoc[other]

\* C2, amended: for a selector in {1, 2} the employee name is written into
\* the name cells of both weeks (M2 on "Week 1" and AJ2 on "Week 2"), and on
\* the other week's sheet no cell but that sheet's name cell differs from the
\* template.
C2_NameInBothWeeks ==
    \A h \in Handlers :
        (Populated(h) /\ req[h].WeekNumber \in {1, 2}) =>
            LET other == IF req[h].WeekNumber = 1 THEN "Week 2" ELSE "Week 1"
                otherCell == IF req[h].WeekNumber = 1 THEN "AJ2" ELSE "M2"
            IN  /\ Doc(h)["Week 1"]["M2"] = StrVal(req[h].EmployeeName)
                /\ Doc(h)["Week 2"]["AJ2"] = StrVal(req[h].EmployeeName)
                /\ DOMAIN Doc(h)[other] = DOMAIN TemplateDoc[other]
                /\ \A c \in DOMAIN Doc(h)[other] :
                        c # otherCell => Doc(h)[other][c] = TemplateDoc[other][c]

\* C2 witness: a week 2 request of a named employee is populated and answered
C2_Witness ==
    /\ Populated("h1") /\ pc["h1"] = "done" /\ status["h1"] = StatusOK
    /\ req["h1"].WeekNumber = 2
    /\ req["h1"].EmployeeName # <<>>
    /\ Len(req["h1"].Rows) >= 7

\* C3: a request with a selector other than 1 and 2 gives the same cells and
\* values as the same request with selector 1.
C3_UnknownSelectorAsWeek1 ==
    \A a, b \in Handlers :
        ( /\ Populated(a) /\ Populated(b)
          /\ req[a].WeekNumber = 1
          /\ req[b].WeekNumber \notin {1, 2}
          /\ req[b] = [req[a] EXCEPT !.WeekNumber = req[b].WeekNumber] )
        => Doc(a) = Doc(b)

\* C3 witness: two populated requests equal but for the selector, 1 and
\* a negative one, with rows written
C3_Witness ==
    /\ Populated("h1") /\ Populated("h2")
    /\ req["h1"].WeekNumber = 1
    /\ req["h2"].WeekNumber < 0
    /\ req["h2"] = [req["h1"] EXCEPT !.WeekNumber = req["h2"].WeekNumber]
    /\ Len(req["h1"].Rows) >= 2
    /\ Doc("h1")["Week 1"][DateCell(2)] # TemplateValue

C5_FirstMatchWins ==
    \A h \in Handlers : \A i \in 1..Processed(h) :
        LET n == Normalise(req[h].Rows[i].Date)
            v == Doc(h)[sheet[h]][DateCell(i)]
        IN  IF n.ok THEN v = TimeVal(n.t) ELSE v.kind # "time"

\* C6: when the first seven entries all carry a date some format accepts,
\* the seven cells of the primary block and the seven cells of a secondary
\* block of the selected sheet hold the entries' normalised dates.
C6_BothBlocksFilled ==
    \A h \in Handlers :
        ( /\ Populated(h)
          /\ Len(req[h].Rows) >= 7
          /\ \A i \in 1..7 : Normalise(req[h].Rows[i].Date).ok )
        => \A i \in 1..7 :
              LET v == TimeVal(Normalise(req[h].Rows[i].Date).t) IN
              /\ Doc(h)[sheet[h]][DateCell(i)] = v
              /\ \E c \in DOMAIN Doc(h)[sheet[h]] :
                    /\ c \notin {DateCell(j) : j \in 1..7}
                    /\ Doc(h)[sheet[h]][c] = v

\* C7: of a request with more than seven entries only the first seven are
\* written: the cells below the seven-row block keep their template values.
C7_OnlySevenRowsWritten ==
    \A h \in Handlers :
        (Populated(h) /\ Len(req[h].Rows) > 7) =>
            \A i \in 8..Len(req[h].Rows) :
                Doc(h)[sheet[h]][DateCell(i)] = TemplateDoc[sheet[h]][DateCell(i)]

\* C8: when the first entry's date normalises, a cell outside the date rows
\* (the week-start anchor) holds the Sunday on or before that date.
C8_AnchorHoldsSunday ==
    \A h \in Handlers :
        ( /\ Populated(h)
          /\ Len(req[h].Rows) >= 1
          /\ Normalise(req[h].Rows[1].Date).ok )
        => \E c \in DOMAIN Doc(h)[sheet[h]] :
              /\ c \notin {DateCell(j) : j \in 1..Len(req[h].Rows)}
              /\ Doc(h)[sheet[h]][c] = TimeVal(SundayOnOrBefore(Normalise(req[h].Rows[1].Date).t))

\* C9: a fatal error (bad payload, template read or open failure,
\* serialisation failure) ends the request with an error status and no
\* spreadsheet bytes; the success status and the bytes come only after
\* serialisation succeeded; a date that does not parse is never fatal.
C9_FatalErrorsEmitNoBytes ==
    \A h \in Handlers :
        /\ HasText(h) =>
              /\ pc[h] = "done"
              /\ status[h] \in {StatusBadRequest, StatusMethodNotAllowed, StatusInternalServerError}
              /\ ~HasXlsx(h)
        /\ status[h] \in {StatusBadRequest, StatusInternalServerError} => (HasText(h) /\ ~HasXlsx(h))
        /\ status[h] = StatusOK => (buf[h] # NilBytes /\ ~HasText(h))
        /\ \A k \in 1..Len(body[h]) :
              body[h][k].kind = "xlsx" =>
                  /\ status[h] = StatusOK
                  /\ body[h][k].bytes = buf[h]
                  /\ buf[h] # NilBytes
        /\ pc[h] \in {"names", "rows", "otHeader", "serialize"} => (status[h] = 0 /\ body[h] = <<>>)

\* C9 witness: serialisation failed for a request that also carried a date
\* that does not parse: error status, the error text only
C9_Witness ==
    /\ pc["h1"] = "done"
    /\ status["h1"] = StatusInternalServerError
    /\ body["h1"] = <<[kind |-> "text", msg |-> "write xlsx"]>>
    /\ \E i \in 1..Len(req["h1"].Rows) : ~timeParse(LayoutISO, req["h1"].Rows[i].Date).ok

\* C10: two requests handled concurrently have each their own spreadsheet
\* model, built from the template bytes; a model and an output document hold
\* only template values and values of their own request; the template bytes
\* never change.
C10_RequestsIsolated ==
    /\ templateFS = TemplateBytes
    /\ \A a, b \in Handlers : (a # b /\ f[a] # 0 /\ f[b] # 0) => f[a] # f[b]
    /\ \A h \in Handlers :
          /\ tmplBytes[h] \in {NilBytes, TemplateBytes}
          /\ pc[h] = "names" => Doc(h) = TemplateDoc
          /\ f[h] # 0 => OnlyOwnValues(h, Doc(h))
          /\ Populated(h) =>
                /\ Doc(h)["Week 1"]["M2"] = StrVal(req[h].EmployeeName)
                /\ \A i \in 1..Len(req[h].Rows) :
                      LET v == Doc(h)[sheet[h]][DateCell(i)] IN
                      \/ v = StrVal(req[h].Rows[i].Date)
                      \/ v.kind = "time" /\ ISOText(v.t) = req[h].Rows[i].Date
          /\ \A k \in 1..Len(body[h]) :
                body[h][k].kind = "xlsx" => OnlyOwnValues(h, body[h][k].bytes.xlsx)

\* C10 witness: both requests answered, with different names and dates
C10_Witness ==
    /\ \A h \in Handlers : pc[h] = "done" /\ status[h] = StatusOK /\ HasXlsx(h)
    /\ req["h1"].EmployeeName # req["h2"].EmployeeName
    /\ Len(req["h1"].Rows) >= 2 /\ Len(req["h2"].Rows) >= 2
    /\ req["h1"].Rows[1].Date # req["h2"].Rows[1].Date
    /\ sheet["h1"] = sheet["h2"]

====
